---- MODULE Spec2Model ----
(***************************************************************************)
(* GADIA backend: the page analysis of POST /simple-analyze and the batch  *)
(* of POST /analyze-images (src/gadia/backend/main.py) as a state machine  *)
(* (Spec), and the duplicate filter of the ad detector                     *)
(* (src/gadia/utils/ad_detector.py) as a second one (SpecDetect).          *)
(*                                                                         *)
(* Strings are sequences of tokens; `w in s` (Python substring test) is    *)
(* token membership, so the vocabulary below is chosen with no token a     *)
(* substring of another.  Non-ASCII text is spelled in ASCII: the verdict  *)
(* "Si" stands for the accented word of the source, "U+1F3B0" for the slot *)
(* machine symbol.  Probabilities are fixed-point, in units of 1/10000     *)
(* (0.5 is 5000, the bonus step 0.1 is 1000), so sums and comparisons are  *)
(* exact; binary floating-point rounding is outside the model.             *)
(*                                                                         *)
(* One behaviour is one request.  The ad regions are drawn one per         *)
(* iteration of the collection loop; the page's images are drawn when the  *)
(* page is fetched; what the classifier does is drawn at each call.        *)
(* `calls` is a history variable: the log of the classifier calls.         *)
(***************************************************************************)
EXTENDS Integers, Sequences, FiniteSets, TLC

\* ------------------------------------------------------------------ bounds
\* A page analysis handles at most MaxImgs images in total: the ad-derived
\* candidates plus the page's image inventory.
MaxImgs == 3

\* The four heuristics of detect_ads find at most MaxAds regions in total.
MaxAds == 3

\* ------------------------------------------------------------- fixed point
\* gambling_strict_threshold = 0.5
gambling_strict_threshold == 5000

\* context_bonus += 0.1
BonusStep == 1000

\* the cap 1.0 of min(prob + context_bonus, 1.0)
ProbCap == 10000

\* --------------------------------------------------------------- vocabulary
None == <<"<None>">>

U_plain  == <<"https://", "img1">>
U_casino == <<"https://", "casino">>
U_logo   == <<"https://", "LOGO">>
U_rel    == <<"/", "img2">>
U_empty  == <<>>

SYM_SLOT == "U+1F3B0"

palabras_ignorar ==
    {"logo", "icon", "favicon", "marca", "brand", "comercio", "perfil",
     "avatar", "user", "persona", "foto", "author", "team", "staff"}

gambling_keywords ==
    {"casino", "poker", "bet", "gambling", "slot", "roulette", "blackjack",
     "baccarat", "craps", "lottery", "bingo", "sports betting",
     "online casino", "real money", "casino online", "apuestas",
     "juegos de azar", "tragaperras", "ruleta", "p_oacute_ker", "bingo online",
     "jackpot", "premio", "ganador", "apuesta deportiva", "apuesta",
     "ganancias", "bono", "apuesta gratis", "apuesta en vivo"}

gambling_symbols ==
    {"U+1F3B0", "U+1F4B0", "U+1F0CF", "U+1F3B2", "U+1F3C6", "U+1F4B5",
     "U+1F4B8", "U+1F3AF"}

banner_words == {"banner", "ad", "promo"}

\* ------------------------------------------------------------------ strings
\* str.lower() on one token.
LowerTok(t) ==
    CASE t = "LOGO"   -> "logo"
      [] t = "Casino" -> "casino"
      [] t = "HTTPS://" -> "https://"
      [] OTHER -> t

\* str.lower()
Lower(s) == [i \in DOMAIN s |-> LowerTok(s[i])]

\* w in s
Contains(s, w) == \E i \in DOMAIN s : s[i] = w

\* any(w in s for w in words)
AnyIn(words, s) == \E w \in words : Contains(s, w)

\* ' '.join(classes)
RECURSIVE Join(_)
Join(classes) ==
    IF Len(classes) = 0 THEN <<>>
    ELSE IF Len(classes) = 1 THEN <<classes[1]>>
    ELSE <<classes[1], " ">> \o Join(Tail(classes))

\* s.startswith(('http://', 'https://'))
StartsWithHttp(s) == Len(s) > 0 /\ s[1] \in {"http://", "https://"}

\* Python truthiness of an Optional[str]
Falsy(s) == s = None \/ s = <<>>

\* str.isdigit()
Digits == {"0", "1", "2", "3", "4", "5", "6", "7", "8", "9"}

IsDigit(s) == Len(s) > 0 /\ \A i \in DOMAIN s : s[i] \in Digits

DigitVal(c) ==
    CASE c = "0" -> 0 [] c = "1" -> 1 [] c = "2" -> 2 [] c = "3" -> 3
      [] c = "4" -> 4 [] c = "5" -> 5 [] c = "6" -> 6 [] c = "7" -> 7
      [] c = "8" -> 8 [] c = "9" -> 9

\* int(s) for a string of digits
RECURSIVE IntOf(_)
IntOf(s) ==
    IF Len(s) = 0 THEN 0
    ELSE 10 * IntOf(SubSeq(s, 1, Len(s) - 1)) + DigitVal(s[Len(s)])

\* ------------------------------------------------------------------ numbers
Min(a, b) == IF a <= b THEN a ELSE b

\* round(x, 3): to the nearest multiple of 10 units, ties to even.
Round3(x) ==
    LET q == x \div 10
        r == x % 10
    IN  IF r < 5 THEN 10 * q
        ELSE IF r > 5 THEN 10 * (q + 1)
        ELSE IF q % 2 = 0 THEN 10 * q ELSE 10 * (q + 1)

\* ---------------------------------------------------------------- classifier
\* What one call of gambling_detector.predict_async can do: raise, fail inside
\* predict (caught there), or return the model's probability.
Probs == {4000, 9000}

ClassifierOutcomes ==
    {[kind |-> "raise", p |-> 0], [kind |-> "error", p |-> 0]}
        \cup {[kind |-> "ok", p |-> v] : v \in Probs}

\* GamblingDetector.predict: a failure of preprocessing or inference is caught
\* and answered 0.0; a raise (the unloaded model's RuntimeError, the executor)
\* reaches the caller.
predict(o) ==
    IF o.kind = "raise" THEN [raised |-> TRUE, value |-> 0]
    ELSE IF o.kind = "error" THEN [raised |-> FALSE, value |-> 0]
    ELSE [raised |-> FALSE, value |-> o.p]

\* -------------------------------------------------------------------- inputs
\* (ad text, ad classes) of the ad regions drawn: no context at all, a
\* banner with a gambling symbol in its text, a gambling keyword in the
\* classes only.
AdContexts ==
    { [text |-> <<>>,          classes |-> <<>>],
      [text |-> <<SYM_SLOT>>,  classes |-> <<"banner">>],
      [text |-> <<>>,          classes |-> <<"bet">>] }

\* ad['images'] as lists of src values.
AdImageLists ==
    { <<>>, <<U_plain>>, <<U_casino>>, <<U_plain, U_casino>>,
      <<U_plain, U_plain>>, <<U_logo, U_plain>>, <<U_rel, U_casino>>,
      <<U_empty>> }

\* An ad region: text, classes, the src values of its images, and text_urls,
\* what re.findall(image URL pattern, ad['text']) finds in the text. The last
\* regions carry an image URL in their text.
AdRegions ==
    { [text |-> c.text, classes |-> c.classes, images |-> l, text_urls |-> <<>>] :
        c \in AdContexts, l \in AdImageLists }
    \cup
    { [text |-> <<"https://", "Casino">>, classes |-> <<>>,
       images |-> l, text_urls |-> <<U_casino>>] : l \in {<<>>, <<U_rel>>} }

\* page_content['images']
PageImages ==
    { [src |-> U_plain,  width |-> <<>>,                height |-> <<>>],
      [src |-> U_casino, width |-> <<"3", "0", "0">>,   height |-> <<"3", "0", "0">>],
      [src |-> U_logo,   width |-> <<"3", "0", "0">>,   height |-> <<"3", "0", "0">>],
      [src |-> U_rel,    width |-> <<>>,                height |-> <<>>],
      [src |-> U_plain,  width |-> <<"1", "0">>,        height |-> <<"1", "0">>],
      [src |-> U_casino, width |-> <<"a", "u", "t", "o">>, height |-> <<"3", "0", "0">>] }

SeqsUpTo(S, n) == UNION { [1..k -> S] : k \in 0..n }

\* ------------------------------------------------- AdDetector.extract_ad_images
\* The http(s) src values of the ad's images; when there is none and the ad has
\* text, the image URLs found in the text.
extract_ad_images(ad) ==
    LET IsHttpSrc(src) == src # <<>> /\ StartsWithHttp(src)
        images == SelectSeq(ad.images, IsHttpSrc)
    IN  IF images = <<>> /\ ad.text # <<>> THEN images \o ad.text_urls ELSE images

\* ------------------------------------------------- simple_analyze, step 4
\* es_banner of an ad region.
es_banner(ad_classes, ad_text) ==
    \/ AnyIn(banner_words, Lower(Join(ad_classes)))
    \/ Contains(ad_text, "banner")
    \/ Contains(ad_text, "ad")

\* Faulty variant of img_related: the region classes are not consulted.
img_related_NoClasses(ad_text, lower_url, ad_classes) ==
    \/ AnyIn(gambling_keywords, ad_text)
    \/ AnyIn(gambling_keywords, lower_url)
    \/ AnyIn(gambling_symbols, ad_text)

\* img_related: the four context tests of the collection loop.
img_related(ad_text, lower_url, ad_classes) ==
    \/ AnyIn(gambling_keywords, ad_text)
    \/ AnyIn(gambling_keywords, lower_url)
    \/ AnyIn(gambling_keywords, Lower(Join(ad_classes)))
    \/ AnyIn(gambling_symbols, ad_text)

\* Faulty variant of AdCandidates: the ignore-words are not consulted.
AdCandidates_NoIgnore(ad) ==
    LET ad_classes == ad.classes
        ad_text == Lower(ad.text)
        banner == es_banner(ad_classes, ad_text)
        Keep(img_url) == img_related(ad_text, Lower(img_url), ad_classes)
        kept == SelectSeq(extract_ad_images(ad), Keep)
    IN  [i \in DOMAIN kept |-> <<kept[i], banner, ad_text, ad_classes>>]

\* The tuples one ad region appends to filtered_ad_images.
AdCandidates(ad) ==
    LET ad_classes == ad.classes
        ad_text == Lower(ad.text)
        banner == es_banner(ad_classes, ad_text)
        Keep(img_url) ==
            /\ ~AnyIn(palabras_ignorar, Lower(img_url))
            /\ img_related(ad_text, Lower(img_url), ad_classes)
        kept == SelectSeq(extract_ad_images(ad), Keep)
    IN  [i \in DOMAIN kept |-> <<kept[i], banner, ad_text, ad_classes>>]

\* Faulty variant of SortBannerFirst: the list is left in discovery order.
SortBannerFirst_Unsorted(l) == l

\* filtered_ad_images.sort(key=lambda x: not x[1]): a stable sort on a boolean
\* key, the banner-tagged tuples first.
SortBannerFirst(l) ==
    LET IsBanner(x) == x[2]
        NotBanner(x) == ~x[2]
    IN  SelectSeq(l, IsBanner) \o SelectSeq(l, NotBanner)

\* Faulty variant of context_bonus: any signal gives the full 0.2.
context_bonus_Flat(ad_text, img_url) ==
    IF \/ AnyIn(gambling_keywords, ad_text)
       \/ AnyIn(gambling_keywords, Lower(img_url))
       \/ AnyIn(gambling_symbols, ad_text)
    THEN 2 * BonusStep ELSE 0

\* context_bonus of an ad-derived candidate.
context_bonus(ad_text, img_url) ==
    (IF AnyIn(gambling_keywords, ad_text) \/ AnyIn(gambling_keywords, Lower(img_url))
        THEN BonusStep ELSE 0)
    + (IF AnyIn(gambling_symbols, ad_text) THEN BonusStep ELSE 0)

\* Faulty variant of Fuse: the sum without the cap.
Fuse_NoCap(prob, bonus) == prob + bonus

\* prob_with_context = min(prob + context_bonus, 1.0)
Fuse(prob, bonus) == Min(prob + bonus, ProbCap)

\* Faulty variant of IsGambling: an inclusive threshold.
IsGambling_Inclusive(prob_with_context) ==
    prob_with_context >= gambling_strict_threshold

\* is_gambling = prob_with_context > gambling_strict_threshold
IsGambling(prob_with_context) == prob_with_context > gambling_strict_threshold

\* The FrameAnalysis dict appended for an evaluated image.
Frame(img_url, prob_with_context) ==
    [url |-> img_url,
     is_gambling |-> IsGambling(prob_with_context),
     probability |-> Round3(prob_with_context)]

\* Faulty variant of NextGamblingImageUrl: the first frame's URL is kept,
\* gambling or not.
NextGamblingImageUrl_AnyFrame(cur, img_url, is_gambling) ==
    IF Falsy(cur) THEN img_url ELSE cur

\* Faulty variant of NextGamblingImageUrl: every positive overwrites.
NextGamblingImageUrl_Overwrite(cur, img_url, is_gambling) ==
    IF is_gambling THEN img_url ELSE cur

\* if is_gambling: ... if not gambling_image_url: gambling_image_url = img_url
NextGamblingImageUrl(cur, img_url, is_gambling) ==
    IF is_gambling /\ Falsy(cur) THEN img_url ELSE cur

\* The deep scan's size filter on the reported width and height.
TooSmall(img_data) ==
    LET w_str == img_data.width
        h_str == img_data.height
        w == IF w_str # <<>> /\ IsDigit(w_str) THEN IntOf(w_str) ELSE 0
        h == IF h_str # <<>> /\ IsDigit(h_str) THEN IntOf(h_str) ELSE 0
    IN  (0 < w /\ w < 50) \/ (0 < h /\ h < 50)

\* ------------------------------------------------------------------- state
VARIABLES
    pc,                  \* where simple_analyze stands
    page_success,        \* page_content['success']
    all_images,          \* page_content['images']
    ads_available,       \* detect_ads returned the page's regions (not [])
    filtered_ad_images,  \* list of (img_url, es_banner, ad_text, ad_classes)
    found_ad_images,
    ai,                  \* position of the ad-derived loop
    frames_analysis,
    gambling_detected,
    gambling_image_url,
    processed_urls,
    di,                  \* position of the deep-scan loop
    gambling_result,     \* has_gambling_ads of the result, "" before it exists
    calls,               \* log of the classifier calls made, in order
    last_ad,             \* the region `ad` of the latest collection iteration
    urls,                \* /analyze-images: the submitted URLs, as strings
    threshold,           \* /analyze-images: <<>> for None, <<t>> for a value
    results,             \* /analyze-images: the list being built
    bi,                  \* /analyze-images: position of the loop
    batch_calls,         \* /analyze-images: log of the classifier calls
    ads,                 \* _filter_and_validate_ads: its argument
    seen_content,        \* _filter_and_validate_ads: the keys seen
    filtered_ads,        \* _filter_and_validate_ads: the list being built
    fi,                  \* _filter_and_validate_ads: position of the loop
    is_model_loaded,     \* gambling_detector.is_loaded()
    page_content,        \* two runs: the PageContent both runs are given
    classifier_stub,     \* two runs: what the classifier does, per URL
    run,                 \* two runs: 1 or 2
    ci,                  \* two runs: position of the collection loop
    result_id,           \* two runs: "id" of the result
    first_result,        \* two runs: the result of run 1
    element,             \* _extract_ad_info: its argument
    ad_info              \* _extract_ad_info: what it returned: <<>> for None
                         \* (and before the call), <<region>> for a region

vars ==
    <<pc, page_success, all_images, ads_available, filtered_ad_images,
      found_ad_images, ai, frames_analysis, gambling_detected,
      gambling_image_url, processed_urls, di, gambling_result, calls,
      last_ad, urls, threshold, results, bi, batch_calls, ads, seen_content,
      filtered_ads, fi, is_model_loaded, page_content, classifier_stub, run,
      ci, result_id, first_result, element, ad_info>>

\* The state of POST /analyze-images and of _filter_and_validate_ads.
batch_vars == <<urls, threshold, results, bi, batch_calls>>

detect_vars == <<ads, seen_content, filtered_ads, fi>>

\* The state of one POST /simple-analyze request, the call log apart.
page_vars ==
    <<page_success, all_images, ads_available, filtered_ad_images,
      found_ad_images, ai, frames_analysis, gambling_detected,
      gambling_image_url, processed_urls, di, gambling_result, last_ad>>

\* The state of the comparison of two runs of simple_analyze.
twice_vars == <<page_content, classifier_stub, run, ci, result_id, first_result>>

\* The state of _extract_ad_info.
extract_vars == <<element, ad_info>>

\* The placeholder of element while unused.
NoElement == [text |-> <<>>, attrs |-> <<>>]

\* The placeholder of last_ad while no region is being handled.
NoAd == [text |-> None, classes |-> <<>>, images |-> <<>>, text_urls |-> <<>>]

\* The placeholders of page_content and first_result while unused.
NoPage ==
    [url |-> <<>>, title |-> <<>>, icon_href |-> <<>>, images |-> <<>>,
     ads |-> <<>>, detect_raises |-> FALSE]

NoResult ==
    [id |-> 0, page_name |-> <<>>, favicon_url |-> <<>>, link |-> <<>>,
     has_gambling_ads |-> "", gambling_image_url |-> None,
     frames_analysis |-> <<>>]

Init ==
    /\ pc = "start"
    /\ page_success = FALSE
    /\ all_images = <<>>
    /\ ads_available = FALSE
    /\ filtered_ad_images = <<>>
    /\ found_ad_images = FALSE
    /\ ai = 1
    /\ frames_analysis = <<>>
    /\ gambling_detected = FALSE
    /\ gambling_image_url = None
    /\ processed_urls = {}
    /\ di = 1
    /\ gambling_result = ""
    /\ calls = <<>>
    /\ last_ad = NoAd
    /\ urls = <<>>
    /\ threshold = <<>>
    /\ results = <<>>
    /\ bi = 1
    /\ batch_calls = <<>>
    /\ ads = <<>>
    /\ seen_content = {}
    /\ filtered_ads = <<>>
    /\ fi = 1
    /\ is_model_loaded \in BOOLEAN
    /\ page_content = NoPage
    /\ classifier_stub = <<>>
    /\ run = 1
    /\ ci = 1
    /\ result_id = 0
    /\ first_result = NoResult
    /\ element = NoElement
    /\ ad_info = <<>>

\* ------------------------------------------------------------------ actions
\* Faulty variant of ModelUnavailable: the request goes on.
ModelUnavailable_Proceeds(at) == at

\* raise HTTPException(status_code=503, ...) of the endpoint that would go on
\* at `at`.
ModelUnavailable(at) == IF at = "scrape" THEN "http503" ELSE "batch503"

\* if not gambling_detector.is_loaded(): ... raise HTTPException(503)
CheckModel ==
    /\ pc = "start"
    /\ pc' = IF is_model_loaded THEN "scrape" ELSE ModelUnavailable("scrape")
    /\ UNCHANGED <<page_success, all_images, ads_available, filtered_ad_images,
                   found_ad_images, ai, frames_analysis, gambling_detected,
                   gambling_image_url, processed_urls, di, gambling_result, calls>>
    /\ UNCHANGED <<last_ad, batch_vars, detect_vars, is_model_loaded, twice_vars, extract_vars>>

\* page_content = web_scraper.scrape_url(url), the page fetched.
ScrapePageFrom(pages) ==
    /\ pc = "scrape"
    /\ \E imgs \in pages : all_images' = imgs
    /\ page_success' = TRUE
    /\ pc' = "detect"
    /\ UNCHANGED <<ads_available, filtered_ad_images, found_ad_images, ai,
                   frames_analysis, gambling_detected, gambling_image_url,
                   processed_urls, di, gambling_result, calls>>
    /\ UNCHANGED <<last_ad, batch_vars, detect_vars, is_model_loaded, twice_vars, extract_vars>>

ScrapePage == ScrapePageFrom(SeqsUpTo(PageImages, MaxImgs))

\* The fetch fails: scrape_url answers success False with no images, or raises
\* and simple_analyze substitutes {"success": False, "html": ""}.
ScrapeFails ==
    /\ pc = "scrape"
    /\ all_images' = <<>>
    /\ page_success' = FALSE
    /\ pc' = "detect"
    /\ UNCHANGED <<ads_available, filtered_ad_images, found_ad_images, ai,
                   frames_analysis, gambling_detected, gambling_image_url,
                   processed_urls, di, gambling_result, calls>>
    /\ UNCHANGED <<last_ad, batch_vars, detect_vars, is_model_loaded, twice_vars, extract_vars>>

\* Faulty variant of detect_ads_answers: success of the fetch is not tested.
detect_ads_answers_Unchecked(success, raised) == ~raised

\* Whether detect_ads answers the regions of the page: not for a page without
\* success (it returns []), and not when detection raises (ads = []).
detect_ads_answers(success, raised) == success /\ ~raised

\* ads = ad_detector.detect_ads(page_content), detection raising or not as
\* drawn from `raises`.
DetectAdsWith(raises) ==
    /\ pc = "detect"
    /\ \E raised \in raises :
          ads_available' = detect_ads_answers(page_success, raised)
    /\ pc' = "collect"
    /\ UNCHANGED <<page_success, all_images, filtered_ad_images, found_ad_images,
                   ai, frames_analysis, gambling_detected, gambling_image_url,
                   processed_urls, di, gambling_result, calls>>
    /\ UNCHANGED <<last_ad, batch_vars, detect_vars, is_model_loaded, twice_vars, extract_vars>>

DetectAds == DetectAdsWith(BOOLEAN)

\* One iteration of `for ad in ads`, for the region ad: the region's eligible
\* images are appended.
CollectRegion(ad) ==
    /\ pc = "collect"
    /\ ads_available
    /\ LET new == AdCandidates(ad)
       IN  /\ Len(filtered_ad_images) + Len(new) + Len(all_images) <= MaxImgs
           /\ filtered_ad_images' = filtered_ad_images \o new
    /\ UNCHANGED <<pc, page_success, all_images, ads_available, found_ad_images,
                   ai, frames_analysis, gambling_detected, gambling_image_url,
                   processed_urls, di, gambling_result, calls>>
    /\ UNCHANGED <<batch_vars, detect_vars, is_model_loaded>>

\* One iteration of `for ad in ads`, the region drawn from `regions`.
CollectAdFrom(regions) ==
    /\ \E ad \in regions : CollectRegion(ad)
    /\ UNCHANGED <<last_ad, twice_vars, extract_vars>>

CollectAd == CollectAdFrom(AdRegions)

\* One iteration of `for ad in ads`, the region kept in last_ad.
CollectAdLogged ==
    /\ \E ad \in AdRegions : CollectRegion(ad) /\ last_ad' = ad
    /\ UNCHANGED <<twice_vars, extract_vars>>

\* The end of the collection loop: the sort, and found_ad_images.
SortCandidates ==
    /\ pc = "collect"
    /\ filtered_ad_images' = SortBannerFirst(filtered_ad_images)
    /\ found_ad_images' = (filtered_ad_images # <<>>)
    /\ ai' = 1
    /\ last_ad' = NoAd
    /\ pc' = "ad_pass"
    /\ UNCHANGED <<page_success, all_images, ads_available, frames_analysis,
                   gambling_detected, gambling_image_url, processed_urls, di,
                   gambling_result, calls>>
    /\ UNCHANGED <<batch_vars, detect_vars, is_model_loaded, twice_vars, extract_vars>>

\* The ad-derived loop goes on while candidates are left.
AdLoopContinues == ai <= Len(filtered_ad_images)

\* Faulty variant of OnClassifierError: the exception leaves the loop and
\* reaches the handler of the whole request (HTTP 400).
OnClassifierError_Abort(at) == "http400"

\* except Exception: logger.error(...): where the analysis stands after a
\* classifier call raised.
OnClassifierError(at) == at

\* The body of a classifier try-block, for image img_url with context bonus
\* `bonus`, in pass `phase`, when the classifier does `o`.
Evaluate(img_url, bonus, phase, o, at) ==
    LET r == predict(o)
        prob_with_context == Fuse(r.value, bonus)
        frame == Frame(img_url, prob_with_context)
    IN  IF r.raised
        THEN /\ pc' = OnClassifierError(at)
             /\ calls' = Append(calls, [url |-> img_url, phase |-> phase,
                                        raised |-> TRUE, prob |-> 0, bonus |-> 0])
             /\ UNCHANGED <<frames_analysis, gambling_detected, gambling_image_url>>
        ELSE /\ pc' = at
             /\ calls' = Append(calls, [url |-> img_url, phase |-> phase,
                                        raised |-> FALSE, prob |-> r.value,
                                        bonus |-> bonus])
             /\ frames_analysis' = Append(frames_analysis, frame)
             /\ gambling_detected' = (gambling_detected \/ frame.is_gambling)
             /\ gambling_image_url' =
                    NextGamblingImageUrl(gambling_image_url, img_url, frame.is_gambling)

\* One iteration of the loop over filtered_ad_images.
ClassifyAdWith(outcomes) ==
    /\ pc = "ad_pass"
    /\ AdLoopContinues
    /\ \E o \in outcomes :
          LET c == filtered_ad_images[ai]
          IN  Evaluate(c[1], context_bonus(c[3], c[1]), "ad", o, "ad_pass")
    /\ ai' = ai + 1
    /\ UNCHANGED <<page_success, all_images, ads_available, filtered_ad_images,
                   found_ad_images, processed_urls, di, gambling_result>>
    /\ UNCHANGED <<last_ad, batch_vars, detect_vars, is_model_loaded, twice_vars, extract_vars>>

ClassifyAd == ClassifyAdWith(ClassifierOutcomes)

\* The deep scan starts once the ad-derived loop has ended.
DeepScanStarts == ~AdLoopContinues

\* processed_urls = set([f['url'] for f in frames_analysis])
StartDeepScan ==
    /\ pc = "ad_pass"
    /\ DeepScanStarts
    /\ processed_urls' = { frames_analysis[i].url : i \in DOMAIN frames_analysis }
    /\ di' = 1
    /\ pc' = "deep"
    /\ UNCHANGED <<page_success, all_images, ads_available, filtered_ad_images,
                   found_ad_images, ai, frames_analysis, gambling_detected,
                   gambling_image_url, gambling_result, calls>>
    /\ UNCHANGED <<last_ad, batch_vars, detect_vars, is_model_loaded, twice_vars, extract_vars>>

\* Faulty variant of DeepLoopContinues: the loop stops at the first positive.
DeepLoopContinues_EarlyExit == di <= Len(all_images) /\ ~gambling_detected

\* Faulty variant of DeepLoopContinues: the deep scan is skipped when no ad
\* region was available.
DeepLoopContinues_NeedsAds == di <= Len(all_images) /\ ads_available

\* The deep-scan loop goes on while page images are left.
DeepLoopContinues == di <= Len(all_images)

\* One iteration of `for img_data in all_images`.
DeepScanImageWith(outcomes) ==
    /\ pc = "deep"
    /\ DeepLoopContinues
    /\ LET img_data == all_images[di]
           img_url == img_data.src
       IN  IF img_url = <<>> \/ ~StartsWithHttp(img_url) \/ img_url \in processed_urls
           THEN UNCHANGED <<pc, processed_urls, frames_analysis, gambling_detected,
                            gambling_image_url, calls>>
           ELSE /\ processed_urls' = processed_urls \cup {img_url}
                /\ IF AnyIn(palabras_ignorar, Lower(img_url)) \/ TooSmall(img_data)
                   THEN UNCHANGED <<pc, frames_analysis, gambling_detected,
                                    gambling_image_url, calls>>
                   ELSE \E o \in outcomes :
                            Evaluate(img_url, 0, "deep", o, "deep")
    /\ di' = di + 1
    /\ UNCHANGED <<page_success, all_images, ads_available, filtered_ad_images,
                   found_ad_images, ai, gambling_result>>
    /\ UNCHANGED <<last_ad, batch_vars, detect_vars, is_model_loaded, twice_vars, extract_vars>>

DeepScanImage == DeepScanImageWith(ClassifierOutcomes)

\* Faulty variant of Verdict: "Si" whenever ad-derived candidates were found.
Verdict_FromCandidates(found, frames, detected) ==
    IF ~found /\ Len(frames) = 0 THEN "No"
    ELSE IF found \/ detected THEN "Si" ELSE "No"

\* has_gambling_ads of the result.
Verdict(found, frames, detected) ==
    IF ~found /\ Len(frames) = 0 THEN "No"
    ELSE IF detected THEN "Si" ELSE "No"

\* The result is built and returned, its id apart.
BuildResult ==
    /\ pc = "deep"
    /\ ~DeepLoopContinues
    /\ gambling_result' = Verdict(found_ad_images, frames_analysis, gambling_detected)
    /\ pc' = "done"
    /\ UNCHANGED <<page_success, all_images, ads_available, filtered_ad_images,
                   found_ad_images, ai, frames_analysis, gambling_detected,
                   gambling_image_url, processed_urls, di, calls>>
    /\ UNCHANGED <<last_ad, batch_vars, detect_vars, is_model_loaded>>

\* The result is built and returned.
Finish == BuildResult /\ UNCHANGED <<twice_vars, extract_vars>>

\* ------------------------------------------------- POST /analyze-images
\* BEST_THRESHOLD = 0.4931
BEST_THRESHOLD == 4931

\* request.urls of the requests drawn; the last one is spelled with an
\* upper-case scheme.
U_upper == <<"HTTPS://", "img1">>

BatchUrls == {U_casino, U_upper}

\* What one classifier call of the batch can do: probabilities below, at and
\* just above BEST_THRESHOLD.
BatchProbs == {4000, 4931, 4950}

BatchOutcomes ==
    {[kind |-> "raise", p |-> 0], [kind |-> "error", p |-> 0]}
        \cup {[kind |-> "ok", p |-> v] : v \in BatchProbs}

\* request.threshold: None, 0.0 or 0.4
Thresholds == {<<>>, <<0>>, <<4000>>}

\* str(u) of an HttpUrl: the scheme in lower case.
str_url(u) == IF Len(u) = 0 THEN u ELSE <<LowerTok(u[1])>> \o Tail(u)

\* Faulty variant of final_threshold: `threshold or BEST_THRESHOLD`, which
\* takes 0.0 for a missing threshold.
final_threshold_Truthy(t) ==
    IF t # <<>> /\ t[1] # 0 THEN t[1] ELSE BEST_THRESHOLD

\* final_threshold = threshold if threshold is not None else BEST_THRESHOLD
final_threshold(t) == IF t # <<>> THEN t[1] ELSE BEST_THRESHOLD

\* The FrameAnalysis appended for a URL whose classifier call returned prob.
BatchResult(str_u, prob, t) ==
    [url |-> str_u,
     is_gambling |-> prob > final_threshold(t),
     probability |-> Round3(prob)]

\* The FrameAnalysis appended for a URL whose classifier call raised.
BatchFailure(str_u) == [url |-> str_u, is_gambling |-> FALSE, probability |-> 0]

\* if not gambling_detector.is_loaded(): raise HTTPException(503)
BatchCheckModel ==
    /\ pc = "start"
    /\ pc' = IF is_model_loaded THEN "batch_start" ELSE ModelUnavailable("batch_start")
    /\ UNCHANGED <<page_vars, calls, batch_vars, detect_vars, is_model_loaded, twice_vars, extract_vars>>

\* The request is read: [] for no URL, else the loop of
\* _analyze_images_with_resnet starts.
BatchRequest ==
    /\ pc = "batch_start"
    /\ \E us \in SeqsUpTo(BatchUrls, MaxImgs), t \in Thresholds :
          /\ urls' = us
          /\ threshold' = t
          /\ pc' = IF us = <<>> THEN "batch_done" ELSE "batch"
    /\ results' = <<>>
    /\ bi' = 1
    /\ UNCHANGED <<page_vars, calls, batch_calls, detect_vars, is_model_loaded, twice_vars, extract_vars>>

\* The loop of _analyze_images_with_resnet goes on while URLs are left.
BatchLoopContinues == bi <= Len(urls)

\* One iteration of `for img_url in urls`.
BatchAnalyzeImage ==
    /\ pc = "batch"
    /\ BatchLoopContinues
    /\ \E o \in BatchOutcomes :
          LET str_u == str_url(urls[bi])
              r == predict(o)
          IN  /\ results' = Append(results,
                     IF r.raised THEN BatchFailure(str_u)
                     ELSE BatchResult(str_u, r.value, threshold))
              /\ batch_calls' = Append(batch_calls,
                     [url |-> str_u, raised |-> r.raised, prob |-> r.value])
    /\ bi' = bi + 1
    /\ UNCHANGED <<pc, page_vars, calls, urls, threshold, detect_vars, is_model_loaded, twice_vars, extract_vars>>

\* return results
BatchReturn ==
    /\ pc = "batch"
    /\ ~BatchLoopContinues
    /\ pc' = "batch_done"
    /\ UNCHANGED <<page_vars, calls, batch_vars, detect_vars, is_model_loaded, twice_vars, extract_vars>>

Next ==
    \/ CheckModel
    \/ ScrapePage
    \/ ScrapeFails
    \/ DetectAds
    \/ CollectAd
    \/ SortCandidates
    \/ ClassifyAd
    \/ StartDeepScan
    \/ DeepScanImage
    \/ Finish
    \/ BatchCheckModel
    \/ BatchRequest
    \/ BatchAnalyzeImage
    \/ BatchReturn

Spec == Init /\ [][Next]_vars

\* ------------------------------------------------- reading the call log
\* The classifier calls of the ad-derived pass and of the deep scan, in order.
AdCalls == LET IsAd(c) == c.phase = "ad" IN SelectSeq(calls, IsAd)

DeepCalls == LET IsDeep(c) == c.phase = "deep" IN SelectSeq(calls, IsDeep)

\* The calls that returned a probability: each appended one frame.
ReturnedCalls == LET Returned(c) == ~c.raised IN SelectSeq(calls, Returned)

Urls(cs) == [i \in DOMAIN cs |-> cs[i].url]

\* p' of a call that returned, from the logged p and bonus: min(p + bonus, 1.0).
FusedOf(c) == IF c.prob + c.bonus <= 10000 THEN c.prob + c.bonus ELSE 10000

\* The call returned and its p' is above 0.5.
PositiveCall(c) == ~c.raised /\ FusedOf(c) > 5000

\* Index of the first ad-derived call with a gambling frame, 0 when none.
FirstPositiveAdCall ==
    LET hits == { i \in DOMAIN AdCalls : PositiveCall(AdCalls[i]) }
    IN  IF hits = {} THEN 0 ELSE CHOOSE i \in hits : \A j \in hits : i <= j

\* Index of the first frame with is_gambling, 0 when none.
FirstGamblingFrame ==
    LET hits == { i \in DOMAIN frames_analysis : frames_analysis[i].is_gambling }
    IN  IF hits = {} THEN 0 ELSE CHOOSE i \in hits : \A j \in hits : i <= j

\* The URLs the deep scan passes to the classifier for page images `imgs`,
\* given the URLs `seen` already processed: those with an http(s) scheme, not
\* seen before, without an ignore-word, and not too small.
RECURSIVE DeepCandidates(_, _)
DeepCandidates(imgs, seen) ==
    IF imgs = <<>> THEN <<>>
    ELSE LET img_data == Head(imgs)
             img_url == img_data.src
         IN  IF img_url = <<>> \/ ~StartsWithHttp(img_url) \/ img_url \in seen
             THEN DeepCandidates(Tail(imgs), seen)
             ELSE IF AnyIn(palabras_ignorar, Lower(img_url)) \/ TooSmall(img_data)
             THEN DeepCandidates(Tail(imgs), seen \cup {img_url})
             ELSE <<img_url>> \o DeepCandidates(Tail(imgs), seen \cup {img_url})

\* The URLs of the frames the ad-derived pass produced.
AdFrameUrls ==
    LET Returned(c) == ~c.raised
        cs == SelectSeq(AdCalls, Returned)
    IN  { cs[i].url : i \in DOMAIN cs }

\* ------------------------------------------------------------------- claims

\* C1 (as claimed): once the ad-derived pass has ended, the number of
\* ad-derived classifier calls is the index of the first ad-derived call with
\* a gambling frame, or the number of ad-derived candidates when no call had
\* one: no ad-derived candidate is classified after the first positive.
C1_AdPassStopsAtFirstPositive ==
    pc \in {"deep", "done"} =>
        Len(AdCalls) = IF FirstPositiveAdCall = 0
                       THEN Len(filtered_ad_images)
                       ELSE FirstPositiveAdCall

\* C2: in the result, has_gambling_ads is "No" when no ad-derived candidate
\* was found and frames is empty, and otherwise is "Si" exactly when some
\* frame has is_gambling.
C2_VerdictFromFrames ==
    pc = "done" =>
        IF filtered_ad_images = <<>> /\ frames_analysis = <<>>
        THEN gambling_result = "No"
        ELSE /\ gambling_result \in {"Si", "No"}
             /\ gambling_result = "Si" <=>
                    \E i \in DOMAIN frames_analysis : frames_analysis[i].is_gambling

\* C2 witness: a result "Si" whose first frame is not gambling, and a result
\* "No" for a page with candidates and frames.
C2_Witness ==
    /\ pc = "done"
    /\ gambling_result = "Si"
    /\ filtered_ad_images # <<>>
    /\ Len(frames_analysis) >= 2
    /\ ~frames_analysis[1].is_gambling

\* C3: at every point of the analysis gambling_image_url is the URL of the
\* first frame with is_gambling, and is None while no frame is gambling.
C3_FirstGamblingImage ==
    gambling_image_url =
        IF FirstGamblingFrame = 0 THEN None
        ELSE frames_analysis[FirstGamblingFrame].url

\* C3 witness: two gambling frames with different URLs, the first one kept.
C3_Witness ==
    /\ \E i, j \in DOMAIN frames_analysis :
          /\ i < j
          /\ frames_analysis[i].is_gambling
          /\ frames_analysis[j].is_gambling
          /\ frames_analysis[i].url # frames_analysis[j].url
          /\ gambling_image_url = frames_analysis[i].url
    /\ pc = "done"

\* C4 (as claimed): every classifier call leaves a frame, and a call that
\* raised leaves the frame (url, probability 0.0, is_gambling false), in the
\* ad-derived pass and in the deep scan alike.
C4_FailureRecordsZeroFrame ==
    /\ Len(frames_analysis) = Len(calls)
    /\ \A i \in DOMAIN calls :
          (calls[i].raised /\ i \in DOMAIN frames_analysis) =>
              frames_analysis[i] =
                  [url |-> calls[i].url, is_gambling |-> FALSE, probability |-> 0]

\* C5: a classifier call that raised never ends the analysis: it stays in
\* its loop, every ad-derived candidate and every deep-scan candidate is
\* still passed to the classifier, and the analysis ends in a verdict.
C5_FailureNeverAborts ==
    (\E i \in DOMAIN calls : calls[i].raised) =>
        /\ pc \in {"ad_pass", "deep", "done"}
        /\ pc = "ad_pass" => Len(AdCalls) = ai - 1
        /\ pc \in {"deep", "done"} => Len(AdCalls) = Len(filtered_ad_images)
        /\ pc \in {"deep", "done"} =>
              Urls(DeepCalls) =
                  DeepCandidates(SubSeq(all_images, 1, di - 1), AdFrameUrls)
        /\ pc = "done" => (di = Len(all_images) + 1 /\ gambling_result \in {"Si", "No"})

\* C5 witness: a finished analysis whose first ad-derived call raised, with a
\* later ad-derived call and a later deep-scan call.
C5_Witness ==
    /\ pc = "done"
    /\ Len(calls) >= 3
    /\ calls[1].raised /\ calls[1].phase = "ad"
    /\ calls[2].phase = "ad"
    /\ calls[3].phase = "deep"

\* C6 (as claimed): when an ad-derived candidate was classified as gambling,
\* no deep-scan image is passed to the classifier.
C6_NoDeepScanAfterAdPositive ==
    FirstPositiveAdCall # 0 => DeepCalls = <<>>

\* C7: the deep scan has no early exit: the images it has passed to the
\* classifier are exactly the page images gone through that pass its
\* filters, in page order, and at the result all page images were gone
\* through, also those after a gambling deep-scan frame.
C7_DeepScanEvaluatesAll ==
    /\ pc \in {"deep", "done"} =>
          Urls(DeepCalls) = DeepCandidates(SubSeq(all_images, 1, di - 1), AdFrameUrls)
    /\ pc = "done" => Urls(DeepCalls) = DeepCandidates(all_images, AdFrameUrls)

\* C7 witness: a finished analysis with a deep-scan call after a deep-scan
\* call that gave a gambling frame.
C7_Witness ==
    /\ pc = "done"
    /\ \E i, j \in DOMAIN DeepCalls : i < j /\ PositiveCall(DeepCalls[i])

\* C8 (as claimed): frames never holds two entries with the same URL.
C8_NoUrlEvaluatedTwice ==
    \A i, j \in DOMAIN frames_analysis :
        i # j => frames_analysis[i].url # frames_analysis[j].url

\* C9: with the classifier's p in [0,1], every frame's probability is
\* round(min(p + bonus, 1.0), 3) and lies in [0,1]; the bonus of an
\* ad-derived candidate is 0.0, 0.1 or 0.2 and that of a deep-scan candidate
\* is 0.0.
C9_FusedProbabilityBounded ==
    /\ Len(frames_analysis) = Len(ReturnedCalls)
    /\ \A k \in DOMAIN ReturnedCalls :
          LET c == ReturnedCalls[k]
          IN  /\ c.prob \in 0..10000
              /\ c.phase = "ad" => c.bonus \in {0, 1000, 2000}
              /\ c.phase = "deep" => c.bonus = 0
              /\ k \in DOMAIN frames_analysis =>
                    /\ frames_analysis[k].probability = FusedOf(c)
                    /\ frames_analysis[k].probability \in 0..10000

\* C9 witness: the cap at work on an ad-derived candidate with bonus 0.2
\* (p + bonus above 1.0 gives 1.0), next to a frame of the deep scan.
C9_Witness ==
    /\ \E k \in DOMAIN ReturnedCalls :
          /\ ReturnedCalls[k].phase = "ad"
          /\ ReturnedCalls[k].bonus = 2000
          /\ ReturnedCalls[k].prob + ReturnedCalls[k].bonus > 10000
          /\ frames_analysis[k].probability = 10000
    /\ \E k \in DOMAIN ReturnedCalls : ReturnedCalls[k].phase = "deep"
    /\ pc = "done"

\* C10: a frame has is_gambling exactly when its p' is strictly above 0.5;
\* p' = 0.5 gives is_gambling false, and a result whose only frame has
\* p' = 0.5 is "No".
C10_ThresholdExclusive ==
    /\ Len(frames_analysis) = Len(ReturnedCalls)
    /\ \A k \in DOMAIN ReturnedCalls :
          k \in DOMAIN frames_analysis =>
              (frames_analysis[k].is_gambling <=> FusedOf(ReturnedCalls[k]) > 5000)
    /\ (pc = "done" /\ Len(ReturnedCalls) = 1 /\ FusedOf(ReturnedCalls[1]) = 5000)
          => gambling_result = "No"

\* C10 witness: a result whose only frame has p' = 0.5 exactly.
C10_Witness ==
    /\ pc = "done"
    /\ Len(frames_analysis) = 1
    /\ Len(ReturnedCalls) = 1
    /\ FusedOf(ReturnedCalls[1]) = 5000
    /\ ~frames_analysis[1].is_gambling

\* ------------------------------------------------------------ C11
\* The pages of scenario C: every ad region is a banner (class "banner"), with
\* or without a gambling symbol in its text, holding the casino-named image or
\* a plain one; the classifier returns 0.30 or 0.31.
ScenarioRegions ==
    { [text |-> t, classes |-> <<"banner">>, images |-> <<u>>, text_urls |-> <<>>] :
        t \in {<<>>, <<SYM_SLOT>>}, u \in {U_casino, U_plain} }

ScenarioOutcomes == {[kind |-> "ok", p |-> 3000], [kind |-> "ok", p |-> 3100]}

ScenarioCollectAd == CollectAdFrom(ScenarioRegions)

ScenarioClassifyAd == ClassifyAdWith(ScenarioOutcomes)

ScenarioDeepScanImage == DeepScanImageWith(ScenarioOutcomes)

NextScenario ==
    \/ CheckModel
    \/ ScrapePage
    \/ ScrapeFails
    \/ DetectAds
    \/ ScenarioCollectAd
    \/ SortCandidates
    \/ ScenarioClassifyAd
    \/ StartDeepScan
    \/ ScenarioDeepScanImage
    \/ Finish

SpecScenario == Init /\ [][NextScenario]_vars

\* A finished analysis whose only ad-derived candidate is the casino-named
\* image of a banner region, classified 0.31, the region's text holding a
\* gambling symbol or not as `sym` says, and no deep-scan frame positive.
ScenarioC(sym) ==
    /\ pc = "done"
    /\ Len(filtered_ad_images) = 1
    /\ filtered_ad_images[1][1] = U_casino
    /\ filtered_ad_images[1][2]
    /\ filtered_ad_images[1][4] = <<"banner">>
    /\ AnyIn(gambling_symbols, filtered_ad_images[1][3]) <=> sym
    /\ Len(AdCalls) = 1
    /\ AdCalls[1].prob = 3100
    /\ \A k \in 2..Len(frames_analysis) : ~frames_analysis[k].is_gambling

\* The outcome of the scenario with context bonus `bonus`.
ScenarioOutcome(bonus, positive) ==
    /\ AdCalls[1].bonus = bonus
    /\ frames_analysis[1] =
          [url |-> U_casino, is_gambling |-> positive, probability |-> 3100 + bonus]
    /\ gambling_result = IF positive THEN "Si" ELSE "No"
    /\ gambling_image_url = IF positive THEN U_casino ELSE None

\* C11 (as claimed): a banner-class candidate with a casino-named URL and
\* p = 0.31 gets context bonus 0.2, so p' = 0.51, its frame is positive, the
\* verdict is "Si" and the gambling image is that image.
C11_ScenarioC_AsClaimed ==
    \A sym \in BOOLEAN : ScenarioC(sym) => ScenarioOutcome(2000, TRUE)

\* C11 (amended): for a banner-class candidate with a casino-named URL and
\* p = 0.31 the keyword in the URL gives 0.1 and the banner class gives
\* nothing: p' = 0.41, the frame is negative, the verdict is "No" and no
\* gambling image is reported.  Only when the region's text also holds a
\* gambling symbol is the bonus 0.2, p' = 0.51 and the verdict "Si" with that
\* image reported.
C11_ScenarioC ==
    /\ ScenarioC(FALSE) => ScenarioOutcome(1000, FALSE)
    /\ ScenarioC(TRUE) => ScenarioOutcome(2000, TRUE)

\* C11 witness: the scenario without a symbol, ended with verdict "No".
C11_Witness ==
    /\ ScenarioC(FALSE)
    /\ frames_analysis[1].probability = 4100
    /\ gambling_result = "No"

\* ------------------------------------------------------------ C12
\* The context bonus as the claim states it: 0.1 for a gambling keyword in the
\* ad text, the image URL or the region classes, 0.1 more for a gambling
\* symbol in the ad text.
ClaimedBonus(ad_text, img_url, ad_classes) ==
    (IF \/ \E w \in gambling_keywords : Contains(ad_text, w)
        \/ \E w \in gambling_keywords : Contains(Lower(img_url), w)
        \/ \E w \in gambling_keywords : Contains(Lower(Join(ad_classes)), w)
     THEN 1000 ELSE 0)
    + (IF \E y \in gambling_symbols : Contains(ad_text, y) THEN 1000 ELSE 0)

\* C12 (as claimed): the context bonus of every classified ad-derived
\* candidate is 0.1 for a gambling keyword in its ad text, its URL or its
\* region classes, plus 0.1 for a gambling symbol in its ad text; a keyword
\* in the classes alone gives 0.1.
C12_BonusCountsClasses ==
    \A k \in DOMAIN AdCalls :
        ~AdCalls[k].raised =>
            AdCalls[k].bonus =
                ClaimedBonus(filtered_ad_images[k][3], filtered_ad_images[k][1],
                             filtered_ad_images[k][4])

\* ------------------------------------------------------------ C13
\* The URL contains an ignore-word, in whatever case it is spelled.
HasIgnoreWord(u) == \E i \in DOMAIN u : LowerTok(u[i]) \in palabras_ignorar

\* C13: no image whose URL contains an ignore-word is ever passed to the
\* classifier or appears in frames_analysis or as the gambling image, in the
\* ad-derived pass and in the deep scan, whatever the classifier does.
C13_IgnoredNeverClassified ==
    /\ \A k \in DOMAIN calls : ~HasIgnoreWord(calls[k].url)
    /\ \A k \in DOMAIN frames_analysis : ~HasIgnoreWord(frames_analysis[k].url)
    /\ \A k \in DOMAIN filtered_ad_images : ~HasIgnoreWord(filtered_ad_images[k][1])
    /\ ~HasIgnoreWord(gambling_image_url)

\* C13 witness: a finished analysis of a page whose inventory holds a
\* full-size image with an ignore-word in its URL, next to an image that was
\* classified in the deep scan and an ad-derived candidate that was classified.
C13_Witness ==
    /\ pc = "done"
    /\ \E i \in DOMAIN all_images :
          HasIgnoreWord(all_images[i].src) /\ ~TooSmall(all_images[i])
    /\ Len(AdCalls) >= 1
    /\ Len(DeepCalls) >= 1

\* ------------------------------------------------------------ C14
\* The page analysis with the region of each collection iteration kept in
\* last_ad, on pages of at most one image in their inventory.
CollectScrapePage == ScrapePageFrom(SeqsUpTo(PageImages, 1))

NextCollect ==
    \/ CheckModel
    \/ CollectScrapePage
    \/ ScrapeFails
    \/ DetectAds
    \/ CollectAdLogged
    \/ SortCandidates
    \/ ClassifyAd
    \/ StartDeepScan
    \/ DeepScanImage
    \/ Finish

SpecCollect == Init /\ [][NextCollect]_vars

\* The image at URL u of region r is eligible as the claim states it: not
\* ignored, and a gambling keyword in the region's text, in the URL or in the
\* region's classes, or a gambling symbol in the region's text.
EligibleImage(r, u) ==
    /\ ~HasIgnoreWord(u)
    /\ \/ \E w \in gambling_keywords : Contains(Lower(r.text), w)
       \/ \E w \in gambling_keywords : Contains(Lower(u), w)
       \/ \E w \in gambling_keywords : Contains(Lower(Join(r.classes)), w)
       \/ \E y \in gambling_symbols : Contains(Lower(r.text), y)

\* C14: an iteration of the collection loop appends, in order, exactly the
\* eligible images of its region and makes no classifier call; and every
\* ad-derived classifier call is made on a candidate of filtered_ad_images,
\* so a dropped image is never classified in the ad-derived pass.
C14_EligibleIffRelated ==
    [][ /\ (pc = "collect" /\ pc' = "collect") =>
              LET n == Len(filtered_ad_images)
                  added == SubSeq(filtered_ad_images', n + 1, Len(filtered_ad_images'))
                  Eligible(u) == EligibleImage(last_ad', u)
              IN  /\ Len(filtered_ad_images') >= n
                  /\ SubSeq(filtered_ad_images', 1, n) = filtered_ad_images
                  /\ [i \in DOMAIN added |-> added[i][1]] =
                        SelectSeq(extract_ad_images(last_ad'), Eligible)
                  /\ calls' = calls
        /\ \A k \in DOMAIN calls' :
              calls'[k].phase = "ad" =>
                  /\ k <= Len(filtered_ad_images')
                  /\ calls'[k].url = filtered_ad_images'[k][1]
      ]_vars

\* C14 witness: a region without gambling context in its text or classes and
\* with images [https://img1, https://casino] has been handled: the first
\* image was dropped, the second is the only candidate.
C14_Witness ==
    /\ pc = "collect"
    /\ last_ad.text = <<>>
    /\ last_ad.classes = <<>>
    /\ last_ad.images = <<U_plain, U_casino>>
    /\ Len(filtered_ad_images) = 1
    /\ filtered_ad_images[1][1] = U_casino

\* ------------------------------------------------------------ C15
\* a is a subsequence of b: b with some elements left out.
RECURSIVE IsSubSeq(_, _)
IsSubSeq(a, b) ==
    IF a = <<>> THEN TRUE
    ELSE IF b = <<>> THEN FALSE
    ELSE IF Head(a) = Head(b) THEN IsSubSeq(Tail(a), Tail(b))
    ELSE IsSubSeq(a, Tail(b))

\* after is before, sorted banner-first by a stable sort.
StableBannerFirst(before, after) ==
    LET Tagged(x) == x[2]
        Untagged(x) == ~x[2]
    IN  /\ Len(after) = Len(before)
        /\ \A i, j \in DOMAIN after : (i < j /\ after[j][2]) => after[i][2]
        /\ SelectSeq(after, Tagged) = SelectSeq(before, Tagged)
        /\ SelectSeq(after, Untagged) = SelectSeq(before, Untagged)

\* C15: the step that ends the collection loop leaves the candidates sorted
\* banner-first with discovery order kept among equals; the ad-derived calls
\* are made on the candidates in that order; the deep-scan calls are made in
\* page order, after every ad-derived call and only once every ad-derived
\* candidate has been evaluated.
C15_BannerFirstThenPageOrder ==
    [][ /\ (pc = "collect" /\ pc' = "ad_pass") =>
              StableBannerFirst(filtered_ad_images, filtered_ad_images')
        /\ pc' \in {"ad_pass", "deep", "done"} =>
              /\ \A i, j \in DOMAIN filtered_ad_images' :
                    (i < j /\ filtered_ad_images'[j][2]) => filtered_ad_images'[i][2]
              /\ Len(AdCalls') <= Len(filtered_ad_images')
              /\ \A k \in DOMAIN AdCalls' :
                    AdCalls'[k].url = filtered_ad_images'[k][1]
              /\ \A i, j \in DOMAIN calls' :
                    (i < j /\ calls'[i].phase = "deep") => calls'[j].phase = "deep"
              /\ DeepCalls' # <<>> => Len(AdCalls') = Len(filtered_ad_images')
              /\ IsSubSeq(Urls(DeepCalls'),
                          [i \in DOMAIN all_images' |-> all_images'[i].src])
      ]_vars

\* C15 witness: a finished analysis with candidates [banner, banner,
\* non-banner] of different URLs among the banners, all three evaluated.
C15_Witness ==
    /\ pc = "done"
    /\ Len(filtered_ad_images) = 3
    /\ filtered_ad_images[1][2] /\ filtered_ad_images[2][2] /\ ~filtered_ad_images[3][2]
    /\ filtered_ad_images[1][1] # filtered_ad_images[2][1]
    /\ Len(AdCalls) = 3

\* ------------------------------------------------------------ C16
\* C16 (as claimed): frames_analysis is an append-only log of the evaluated
\* images: every step keeps the entries it had, unchanged and in place, and
\* the list holds one entry per classifier call made, in the order of the
\* calls, the ad-derived ones before the deep-scan ones, whatever the
\* classifier answered.
C16_FramesAppendOnlyLog ==
    [][ /\ Len(frames_analysis') >= Len(frames_analysis)
        /\ SubSeq(frames_analysis', 1, Len(frames_analysis)) = frames_analysis
        /\ [k \in DOMAIN frames_analysis' |-> frames_analysis'[k].url] = Urls(calls')
        /\ \A i, j \in DOMAIN calls' :
              (i < j /\ calls'[i].phase = "deep") => calls'[j].phase = "deep"
      ]_vars

\* ------------------------------------------------------------ C17
\* C17: while the classifier is not loaded, a request to either endpoint
\* ends in HTTP 503 and nowhere else: no page is fetched, no URL list is
\* taken up, no classifier call is made, no frame or result entry and no
\* verdict exists, and HTTP 400 is never the answer.
C17_UnloadedGives503 ==
    ~is_model_loaded =>
        /\ pc \in {"start", "http503", "batch503"}
        /\ ~page_success /\ all_images = <<>> /\ ~ads_available
        /\ calls = <<>> /\ batch_calls = <<>>
        /\ frames_analysis = <<>> /\ results = <<>>
        /\ gambling_result = ""

\* C17 witness: a request rejected with 503 by the unloaded classifier.
C17_Witness ==
    /\ ~is_model_loaded
    /\ pc \in {"http503", "batch503"}
    /\ calls = <<>>
    /\ batch_calls = <<>>

\* ------------------------------------------------------------ C18
\* C18: once the fetch of the page has failed, the analysis goes on with an
\* empty page: no images, no ad region, no candidate, no classifier call and
\* no frame, it never ends in an HTTP error, and its result is the verdict
\* "No" with no frames.
C18_FetchFailureNotFatal ==
    (pc \in {"detect", "collect", "ad_pass", "deep", "done", "http400"} /\ ~page_success) =>
        /\ pc # "http400"
        /\ all_images = <<>>
        /\ pc # "detect" => ~ads_available
        /\ filtered_ad_images = <<>>
        /\ ~found_ad_images
        /\ calls = <<>>
        /\ frames_analysis = <<>>
        /\ pc = "done" => (gambling_result = "No" /\ gambling_image_url = None)

\* C18 witness: the result of an analysis whose fetch failed.
C18_Witness ==
    /\ pc = "done"
    /\ is_model_loaded
    /\ ~page_success
    /\ frames_analysis = <<>>
    /\ gambling_result = "No"

\* ------------------------------------------------------------ C19
\* The threshold of the batch as the claim states it: the caller's value when
\* given, else 0.4931.
ClaimedThreshold == IF threshold = <<>> THEN 4931 ELSE threshold[1]

\* C19: the batch holds one result per classifier call and, once returned,
\* one per submitted URL, in the order submitted, duplicates included; a call
\* that raised gives (url, false, 0.0) in its position; a call that returned
\* p gives is_gambling = (p > threshold) and probability round(p, 3), with
\* no bonus; a positive result does not stop the loop.
C19_BatchOnePerUrl ==
    /\ Len(results) = Len(batch_calls)
    /\ Len(results) <= Len(urls)
    /\ pc = "batch" => Len(results) = bi - 1
    /\ pc = "batch_done" => Len(results) = Len(urls)
    /\ \A k \in DOMAIN results :
          /\ results[k].url = str_url(urls[k])
          /\ batch_calls[k].url = results[k].url
          /\ batch_calls[k].raised =>
                (~results[k].is_gambling /\ results[k].probability = 0)
          /\ ~batch_calls[k].raised =>
                /\ results[k].is_gambling <=> batch_calls[k].prob > ClaimedThreshold
                /\ results[k].probability = Round3(batch_calls[k].prob)

\* C19 witness: a returned batch of three URLs, the first two the same, under
\* the default threshold: a positive at 0.495, then a call that raised, then
\* a negative at 0.4931.
C19_Witness ==
    /\ pc = "batch_done"
    /\ threshold = <<>>
    /\ Len(urls) = 3
    /\ urls[1] = urls[2]
    /\ Len(results) = 3
    /\ batch_calls[1].prob = 4950 /\ results[1].is_gambling
    /\ batch_calls[2].raised /\ ~results[2].is_gambling
    /\ batch_calls[3].prob = 4931 /\ ~results[3].is_gambling

\* ------------------------------------- AdDetector._filter_and_validate_ads
\* Texts and src values here are sequences of characters.
Chars(n, c) == [i \in 1..n |-> c]

\* The 100 of ad.get('text', '')[:100]
KeyPrefixLen == 100

\* Two texts that differ only after their first 100 characters, and a text of
\* 10 characters, the shortest _extract_ad_info lets through.
LongTextA == Chars(KeyPrefixLen, "x") \o <<"a">>

LongTextB == Chars(KeyPrefixLen, "x") \o <<"b">>

ShortText == Chars(10, "y")

ScriptSrc == <<"s", ".", "j", "s">>

ImageSrc == <<"i", ".", "p", "n", "g">>

\* The regions the heuristics find: html_ad regions (selectors, text patterns)
\* carry text and no top-level src; script_ad and image_ad regions carry src
\* and no text.  Two img elements may share their src and differ in their
\* indicators, hence in confidence.
DetectedRegions ==
    { [type |-> "html_ad",   text |-> LongTextA, src |-> <<>>,      confidence |-> "high"],
      [type |-> "html_ad",   text |-> LongTextB, src |-> <<>>,      confidence |-> "medium"],
      [type |-> "html_ad",   text |-> ShortText, src |-> <<>>,      confidence |-> "low"],
      [type |-> "script_ad", text |-> <<>>,      src |-> ScriptSrc, confidence |-> "high"],
      [type |-> "image_ad",  text |-> <<>>,      src |-> ImageSrc,  confidence |-> "low"],
      [type |-> "image_ad",  text |-> <<>>,      src |-> ImageSrc,  confidence |-> "medium"] }

\* Position of a region's heuristic in detect_ads: selectors and text
\* patterns, then scripts, then images.
HeuristicRank(r) ==
    CASE r.type = "html_ad" -> 1 [] r.type = "script_ad" -> 2 [] r.type = "image_ad" -> 3

\* The lists detect_ads hands to the filter: the finds of the heuristics, one
\* heuristic after the other.
FoundLists ==
    { l \in SeqsUpTo(DetectedRegions, MaxAds) :
        \A i, j \in DOMAIN l : i < j => HeuristicRank(l[i]) <= HeuristicRank(l[j]) }

\* s[:n]
Prefix(str, n) == SubSeq(str, 1, Min(Len(str), n))

\* Faulty variant of content_key: the text is not cut at 100 characters.
content_key_Untruncated(r) == r.text \o <<"_">> \o r.src

\* content_key = f"{ad.get('text', '')[:100]}_{ad.get('src', '')}"
content_key(r) == Prefix(r.text, KeyPrefixLen) \o <<"_">> \o r.src

\* if ad.get('confidence') in ['high', 'medium']
MinConfidence(r) == r.confidence \in {"high", "medium"}

InitDetect ==
    /\ pc = "filter"
    /\ ads \in FoundLists
    /\ seen_content = {}
    /\ filtered_ads = <<>>
    /\ fi = 1
    /\ is_model_loaded = TRUE
    /\ page_success = FALSE
    /\ all_images = <<>>
    /\ ads_available = FALSE
    /\ filtered_ad_images = <<>>
    /\ found_ad_images = FALSE
    /\ ai = 1
    /\ frames_analysis = <<>>
    /\ gambling_detected = FALSE
    /\ gambling_image_url = None
    /\ processed_urls = {}
    /\ di = 1
    /\ gambling_result = ""
    /\ calls = <<>>
    /\ last_ad = NoAd
    /\ urls = <<>>
    /\ threshold = <<>>
    /\ results = <<>>
    /\ bi = 1
    /\ batch_calls = <<>>
    /\ page_content = NoPage
    /\ classifier_stub = <<>>
    /\ run = 1
    /\ ci = 1
    /\ result_id = 0
    /\ first_result = NoResult
    /\ element = NoElement
    /\ ad_info = <<>>

\* One iteration of `for ad in ads`.
FilterAd ==
    /\ pc = "filter"
    /\ fi <= Len(ads)
    /\ LET r == ads[fi]
       IN  IF content_key(r) \notin seen_content
           THEN /\ seen_content' = seen_content \cup {content_key(r)}
                /\ filtered_ads' =
                      IF MinConfidence(r) THEN Append(filtered_ads, r) ELSE filtered_ads
           ELSE UNCHANGED <<seen_content, filtered_ads>>
    /\ fi' = fi + 1
    /\ UNCHANGED <<pc, ads, page_vars, calls, batch_vars, is_model_loaded, twice_vars, extract_vars>>

\* return filtered_ads
FilterReturn ==
    /\ pc = "filter"
    /\ fi > Len(ads)
    /\ pc' = "filtered"
    /\ UNCHANGED <<detect_vars, page_vars, calls, batch_vars, is_model_loaded, twice_vars, extract_vars>>

NextDetect == FilterAd \/ FilterReturn

SpecDetect == InitDetect /\ [][NextDetect]_vars

\* ------------------------------------------------------------ C20
\* The key of a region as the claim states it: the first 100 characters of
\* its text, and its source.
ClaimedKey(r) ==
    <<[i \in 1..(IF Len(r.text) < 100 THEN Len(r.text) ELSE 100) |-> r.text[i]], r.src>>

\* C20: what the filter has built is at every moment an order-preserving
\* subsequence of the regions read so far, hence of the regions found by the
\* heuristics in their order; no two regions of it have the same key; none of
\* them has a confidence below medium.
C20_DedupSubsequence ==
    /\ IsSubSeq(filtered_ads, SubSeq(ads, 1, fi - 1))
    /\ \A i, j \in DOMAIN filtered_ads :
          i # j => ClaimedKey(filtered_ads[i]) # ClaimedKey(filtered_ads[j])
    /\ \A i \in DOMAIN filtered_ads : filtered_ads[i].confidence \in {"high", "medium"}
    /\ \A i, j \in DOMAIN filtered_ads :
          i < j => HeuristicRank(filtered_ads[i]) <= HeuristicRank(filtered_ads[j])

\* C20 witness: the filter has returned two of three regions found: of two
\* qualifying regions with the same key only the first is kept.
C20_Witness ==
    /\ pc = "filtered"
    /\ Len(ads) = 3
    /\ Len(filtered_ads) = 2
    /\ \E i, j \in DOMAIN ads :
          /\ i < j
          /\ ads[i] # ads[j]
          /\ ClaimedKey(ads[i]) = ClaimedKey(ads[j])
          /\ ads[i].confidence = "high"
          /\ ads[j].confidence = "medium"

\* ------------------------------------------- two runs of simple_analyze
\* The request's URL, and the title and icon link of the pages drawn.
RequestUrl == <<"https://", "site", "/page">>

PageHeads ==
    { [title |-> <<>>,        icon_href |-> <<>>],
      [title |-> <<"Title">>, icon_href |-> <<"/fav.ico">>],
      [title |-> <<"Title">>, icon_href |-> <<"https://", "cdn", "/fav.ico">>] }

TwiceImages ==
    { [src |-> U_plain,  width |-> <<>>,              height |-> <<>>],
      [src |-> U_casino, width |-> <<"3", "0", "0">>, height |-> <<"3", "0", "0">>],
      [src |-> U_logo,   width |-> <<"3", "0", "0">>, height |-> <<"3", "0", "0">>] }

TwiceRegions ==
    { [text |-> <<SYM_SLOT>>, classes |-> <<"banner">>, images |-> <<U_plain>>,
       text_urls |-> <<>>],
      [text |-> <<>>, classes |-> <<"bet">>, images |-> <<U_casino>>,
       text_urls |-> <<>>],
      [text |-> <<>>, classes |-> <<>>, images |-> <<U_plain, U_casino>>,
       text_urls |-> <<>>] }

\* The deterministic classifiers drawn: per URL, a raise or a probability.
TwiceOutcomes ==
    {[kind |-> "raise", p |-> 0], [kind |-> "ok", p |-> 4000], [kind |-> "ok", p |-> 9000]}

ClassifierStubs == [{U_plain, U_casino} -> TwiceOutcomes]

\* The number of candidates the regions of a list give.
RECURSIVE CandidateCount(_)
CandidateCount(regions) ==
    IF regions = <<>> THEN 0
    ELSE Len(AdCandidates(Head(regions))) + CandidateCount(Tail(regions))

\* The PageContent records drawn, detection included: what the heuristics
\* find on the page, or that they raise.
TwicePages ==
    { [url |-> RequestUrl, title |-> h.title, icon_href |-> h.icon_href,
       images |-> imgs, ads |-> regions, detect_raises |-> raises] :
        h \in PageHeads,
        imgs \in SeqsUpTo(TwiceImages, MaxImgs - 1),
        regions \in { l \in SeqsUpTo(TwiceRegions, 2) : CandidateCount(l) >= 1 },
        raises \in BOOLEAN }

\* The fixed classifier's answer for img_url.
StubOutcome(img_url) ==
    IF img_url \in DOMAIN classifier_stub THEN classifier_stub[img_url]
    ELSE [kind |-> "error", p |-> 0]

\* page_name = page_content.get('title') or url
page_name(pg) == IF pg.title # <<>> THEN pg.title ELSE pg.url

\* favicon_url: the icon link's href, joined to the URL when it is relative,
\* or /favicon.ico at the URL's scheme and host.
favicon_url(pg) ==
    IF pg.icon_href # <<>>
    THEN IF StartsWithHttp(pg.icon_href) THEN pg.icon_href
         ELSE SubSeq(pg.url, 1, 2) \o pg.icon_href
    ELSE SubSeq(pg.url, 1, 2) \o <<"/favicon.ico">>

\* uuid.uuid4()
ResultIds == {1, 2}

\* The result dict of simple_analyze, with id `rid`.
Result(rid) ==
    [id |-> rid,
     page_name |-> page_name(page_content),
     favicon_url |-> favicon_url(page_content),
     link |-> page_content.url,
     has_gambling_ads |-> gambling_result,
     gambling_image_url |-> gambling_image_url,
     frames_analysis |-> frames_analysis]

\* Faulty variant of fresh_frames_analysis: the list outlives the request.
fresh_frames_analysis_Shared(previous) == previous

\* frames_analysis = []: the list a request starts with, whatever the
\* request before it left.
fresh_frames_analysis(previous) == <<>>

InitTwice ==
    /\ pc = "start"
    /\ page_content \in
          { pg \in TwicePages : CandidateCount(pg.ads) + Len(pg.images) <= MaxImgs }
    /\ classifier_stub \in ClassifierStubs
    /\ run = 1
    /\ ci = 1
    /\ result_id = 0
    /\ first_result = NoResult
    /\ element = NoElement
    /\ ad_info = <<>>
    /\ is_model_loaded = TRUE
    /\ page_success = FALSE
    /\ all_images = <<>>
    /\ ads_available = FALSE
    /\ filtered_ad_images = <<>>
    /\ found_ad_images = FALSE
    /\ ai = 1
    /\ frames_analysis = <<>>
    /\ gambling_detected = FALSE
    /\ gambling_image_url = None
    /\ processed_urls = {}
    /\ di = 1
    /\ gambling_result = ""
    /\ calls = <<>>
    /\ last_ad = NoAd
    /\ urls = <<>>
    /\ threshold = <<>>
    /\ results = <<>>
    /\ bi = 1
    /\ batch_calls = <<>>
    /\ ads = <<>>
    /\ seen_content = {}
    /\ filtered_ads = <<>>
    /\ fi = 1

TwiceScrapePage == ScrapePageFrom({page_content.images})

TwiceDetectAds == DetectAdsWith({page_content.detect_raises})

\* One iteration of `for ad in ads` over the regions detected on the page.
TwiceCollectAd ==
    /\ ci <= Len(page_content.ads)
    /\ CollectRegion(page_content.ads[ci])
    /\ ci' = ci + 1
    /\ UNCHANGED <<last_ad, page_content, classifier_stub, run, result_id,
                   first_result, extract_vars>>

\* The collection loop has ended.
TwiceSortCandidates ==
    /\ ~ads_available \/ ci > Len(page_content.ads)
    /\ SortCandidates

TwiceClassifyAd == ClassifyAdWith({StubOutcome(filtered_ad_images[ai][1])})

TwiceDeepScanImage == DeepScanImageWith({StubOutcome(all_images[di].src)})

\* The result is built with a new id and returned.
TwiceFinish ==
    /\ BuildResult
    /\ \E rid \in ResultIds : result_id' = rid
    /\ UNCHANGED <<page_content, classifier_stub, run, ci, first_result,
                   extract_vars>>

\* The second request for the same page arrives: simple_analyze starts with
\* its locals as lines 189-192 and 206 set them.
SecondRequest ==
    /\ pc = "done"
    /\ run = 1
    /\ run' = 2
    /\ first_result' = Result(result_id)
    /\ pc' = "start"
    /\ frames_analysis' = fresh_frames_analysis(frames_analysis)
    /\ gambling_detected' = FALSE
    /\ found_ad_images' = FALSE
    /\ gambling_image_url' = None
    /\ filtered_ad_images' = <<>>
    /\ page_success' = FALSE
    /\ all_images' = <<>>
    /\ ads_available' = FALSE
    /\ ai' = 1
    /\ processed_urls' = {}
    /\ di' = 1
    /\ gambling_result' = ""
    /\ calls' = <<>>
    /\ ci' = 1
    /\ UNCHANGED <<last_ad, result_id, page_content, classifier_stub, batch_vars,
                   detect_vars, is_model_loaded, extract_vars>>

NextTwice ==
    \/ CheckModel
    \/ TwiceScrapePage
    \/ TwiceDetectAds
    \/ TwiceCollectAd
    \/ TwiceSortCandidates
    \/ TwiceClassifyAd
    \/ StartDeepScan
    \/ TwiceDeepScanImage
    \/ TwiceFinish
    \/ SecondRequest

SpecTwice == InitTwice /\ [][NextTwice]_vars

SizePairs ==
    { <<<<>>, <<>>>>,
      <<<<"1", "0">>, <<"1", "0">>>>,
      <<<<"1", "0">>, <<"3", "0", "0">>>>,
      <<<<"3", "0", "0">>, <<"1", "0">>>>,
      <<<<"1", "0">>, <<"a", "u", "t", "o">>>>,
      <<<<"a", "u", "t", "o">>, <<"a", "u", "t", "o">>>>,
      <<<<"3", "0", "0">>, <<"3", "0", "0">>>> }

SizeImages ==
    { [src |-> u, width |-> d[1], height |-> d[2]] :
        u \in {U_plain, U_casino}, d \in SizePairs }

SizeOutcomes == {[kind |-> "ok", p |-> 9000]}

SizeScrapePage == ScrapePageFrom(SeqsUpTo(SizeImages, MaxImgs))

SizeDetectAds == DetectAdsWith({TRUE})

SizeDeepScanImage == DeepScanImageWith(SizeOutcomes)

NextSizes ==
    \/ CheckModel
    \/ SizeScrapePage
    \/ SizeDetectAds
    \/ SortCandidates
    \/ StartDeepScan
    \/ SizeDeepScanImage
    \/ Finish

SpecSizes == Init /\ [][NextSizes]_vars

\* The size test as the claim states it: width and height both parseable and
\* both strictly between 0 and 50.
ClaimedTooSmall(img_data) ==
    /\ img_data.width # <<>> /\ IsDigit(img_data.width)
    /\ img_data.height # <<>> /\ IsDigit(img_data.height)
    /\ 0 < IntOf(img_data.width) /\ IntOf(img_data.width) < 50
    /\ 0 < IntOf(img_data.height) /\ IntOf(img_data.height) < 50

\* C22 (as claimed): a deep-scan iteration on an image that passes the scheme,
\* repetition and ignore-word filters passes it to the classifier unless its
\* reported width and height are both parseable and both strictly between 0
\* and 50.
C22_SizeFilterNeedsBoth ==
    [][ (pc = "deep" /\ di' = di + 1) =>
          LET img_data == all_images[di]
          IN  (/\ StartsWithHttp(img_data.src)
               /\ img_data.src \notin processed_urls
               /\ ~HasIgnoreWord(img_data.src))
              => ((Len(calls') = Len(calls) + 1) <=> ~ClaimedTooSmall(img_data))
      ]_vars

\* ----------------------------------------------- AdDetector._extract_ad_info
\* An attribute of an element: its name, its value, and whether the value is
\* a list (class) or a string.  A name is a sequence of tokens; a value is a
\* sequence of strings (of one string when it is not a list), each a sequence
\* of tokens.
Attr(name, value, is_list) == [name |-> name, value |-> value, is_list |-> is_list]

\* The class, id and data attributes an element may carry.
ClassAttrs ==
    { <<>>, <<Attr(<<"class">>, <<<<"ad", "-box">>>>, TRUE)>>,
      <<Attr(<<"class">>, <<<<"box">>>>, TRUE)>> }

IdAttrs ==
    { <<>>, <<Attr(<<"id">>, <<<<"ad", "1">>>>, FALSE)>>,
      <<Attr(<<"id">>, <<<<"main">>>>, FALSE)>> }

DataAttrs ==
    { <<>>, <<Attr(<<"data-", "ad">>, <<<<"1">>>>, FALSE)>>,
      <<Attr(<<"data-x">>, <<<<"y">>>>, FALSE)>>,
      <<Attr(<<"data-", "ad">>, <<<<"1">>>>, FALSE), Attr(<<"data-slot">>, <<<<"ad", "s">>>>, FALSE)>> }

\* element.get_text(strip=True): 9 characters, or 10.
ElementTexts == {Chars(9, "t"), Chars(10, "t")}

Elements ==
    { [text |-> t, attrs |-> c \o i \o d] :
        t \in ElementTexts, c \in ClassAttrs, i \in IdAttrs, d \in DataAttrs }

\* str(['a', 'b']): the list's elements between brackets and quotes.
RECURSIVE StrOfList(_)
StrOfList(l) ==
    IF l = <<>> THEN <<"[]">>
    ELSE IF Len(l) = 1 THEN <<"['">> \o l[1] \o <<"']">>
    ELSE <<"['">> \o l[1] \o <<"', ">> \o Tail(StrOfList(Tail(l)))

\* str(value) of an attribute value
StrOfValue(a) == IF a.is_list THEN StrOfList(a.value) ELSE a.value[1]

\* element.get(name, default)
GetAttr(e, name, default) ==
    LET hits == { k \in DOMAIN e.attrs : e.attrs[k].name = name }
    IN  IF hits = {} THEN default ELSE e.attrs[CHOOSE k \in hits : TRUE].value

\* confidence_indicators, in the order appended.
confidence_indicators(e) ==
    LET classes == GetAttr(e, <<"class">>, <<>>)
        element_id == GetAttr(e, <<"id">>, <<<<>>>>)[1]
        IsAdAttr(a) == Contains(Lower(a.name), "ad") \/ Contains(Lower(StrOfValue(a)), "ad")
        ad_attrs == SelectSeq(e.attrs, IsAdAttr)
    IN  (IF \E k \in DOMAIN classes : Contains(Lower(classes[k]), "ad")
         THEN <<"class">> ELSE <<>>)
        \o (IF Contains(Lower(element_id), "ad") THEN <<"id">> ELSE <<>>)
        \o [k \in DOMAIN ad_attrs |-> "data_attr"]

\* Determinar nivel de confianza
confidence(indicators) ==
    IF Len(indicators) >= 2 THEN "high"
    ELSE IF Len(indicators) = 1 THEN "medium" ELSE "low"

\* _extract_ad_info(element): None (the empty sequence) for a text under 10
\* characters, else the region dict (its text, classes, confidence and
\* indicators) as a one-element sequence.
extract_ad_info(e) ==
    IF e.text = <<>> \/ Len(e.text) < 10 THEN <<>>
    ELSE <<[type |-> "html_ad", text |-> e.text,
            classes |-> GetAttr(e, <<"class">>, <<>>),
            confidence |-> confidence(confidence_indicators(e)),
            indicators |-> confidence_indicators(e)]>>

InitExtract ==
    /\ pc = "extract"
    /\ element \in Elements
    /\ ad_info = <<>>
    /\ is_model_loaded = TRUE
    /\ page_content = NoPage
    /\ classifier_stub = <<>>
    /\ run = 1
    /\ ci = 1
    /\ result_id = 0
    /\ first_result = NoResult
    /\ page_success = FALSE
    /\ all_images = <<>>
    /\ ads_available = FALSE
    /\ filtered_ad_images = <<>>
    /\ found_ad_images = FALSE
    /\ ai = 1
    /\ frames_analysis = <<>>
    /\ gambling_detected = FALSE
    /\ gambling_image_url = None
    /\ processed_urls = {}
    /\ di = 1
    /\ gambling_result = ""
    /\ calls = <<>>
    /\ last_ad = NoAd
    /\ urls = <<>>
    /\ threshold = <<>>
    /\ results = <<>>
    /\ bi = 1
    /\ batch_calls = <<>>
    /\ ads = <<>>
    /\ seen_content = {}
    /\ filtered_ads = <<>>
    /\ fi = 1

\* _extract_ad_info is applied to the element.
ExtractAdInfo ==
    /\ pc = "extract"
    /\ ad_info' = extract_ad_info(element)
    /\ pc' = "extracted"
    /\ UNCHANGED <<element, page_vars, calls, batch_vars, detect_vars,
                   is_model_loaded, twice_vars>>

NextExtract == ExtractAdInfo

SpecExtract == InitExtract /\ [][NextExtract]_vars

\* ------------------------------------------------------------ C23
\* The number of indicator kinds that fire for an element as the claim
\* states them: a class containing "ad", an id containing "ad", a data
\* attribute whose name or value contains "ad".
ClaimedKinds(e) ==
    LET IsData(a) == a.name[1] = "data-" \/ a.name[1] = "data-x" \/ a.name[1] = "data-slot"
        class_fires ==
            \E k \in DOMAIN e.attrs :
                /\ e.attrs[k].name = <<"class">>
                /\ \E j \in DOMAIN e.attrs[k].value : Contains(e.attrs[k].value[j], "ad")
        id_fires ==
            \E k \in DOMAIN e.attrs :
                e.attrs[k].name = <<"id">> /\ Contains(e.attrs[k].value[1], "ad")
        data_fires ==
            \E k \in DOMAIN e.attrs :
                /\ IsData(e.attrs[k])
                /\ Contains(e.attrs[k].name, "ad") \/ Contains(e.attrs[k].value[1], "ad")
    IN  (IF class_fires THEN 1 ELSE 0) + (IF id_fires THEN 1 ELSE 0)
        + (IF data_fires THEN 1 ELSE 0)

\* C23 (as claimed): an element with a text under 10 characters yields no
\* region; any other yields a region whose confidence is high when at least
\* two of the kinds class, id and data attribute fire, medium when exactly one
\* does (so for an element whose only signal is its class), low when none.
C23_ConfidenceByKinds ==
    pc = "extracted" =>
        IF Len(element.text) < 10 THEN ad_info = <<>>
        ELSE /\ ad_info # <<>>
             /\ ad_info[1].confidence =
                   (IF ClaimedKinds(element) >= 2 THEN "high"
                    ELSE IF ClaimedKinds(element) = 1 THEN "medium" ELSE "low")

\* ------------------------------------------------------------ C24
\* C24: once ad detection has failed on a fetched page (ads = []), the
\* analysis never ends in an HTTP error, the ad-derived pass has no candidate
\* and makes no classifier call, and the deep scan still classifies every
\* eligible page image, in page order; the verdict is "Si" exactly when one
\* of these deep-scan calls gave a gambling frame.
C24_DetectionFailureDegrades ==
    (pc \in {"collect", "ad_pass", "deep", "done", "http400"}
        /\ page_success /\ ~ads_available) =>
        /\ pc # "http400"
        /\ filtered_ad_images = <<>>
        /\ ~found_ad_images
        /\ AdCalls = <<>>
        /\ pc = "done" =>
              /\ Urls(DeepCalls) = DeepCandidates(all_images, {})
              /\ gambling_result =
                    IF \E i \in DOMAIN DeepCalls : PositiveCall(DeepCalls[i])
                    THEN "Si" ELSE "No"

\* C24 witness: detection failed on a fetched page and the deep scan found a
\* gambling image after a non-gambling one.
C24_Witness ==
    /\ pc = "done"
    /\ page_success
    /\ ~ads_available
    /\ Len(DeepCalls) >= 2
    /\ ~PositiveCall(DeepCalls[1])
    /\ gambling_result = "Si"

\* ------------------------------------------------------------ C25
\* C25: in the result the three outputs agree: has_gambling_ads is "Si" if
\* and only if gambling_image_url is set, if and only if some frame of
\* frames_analysis has is_gambling; and a set gambling_image_url is the URL
\* of one of the frames.
C25_OutputsAgree ==
    pc = "done" =>
        LET says_si == gambling_result = "Si"
            url_set == gambling_image_url # None
            some_frame == \E i \in DOMAIN frames_analysis : frames_analysis[i].is_gambling
        IN  /\ says_si <=> url_set
            /\ url_set <=> some_frame
            /\ url_set =>
                  \E i \in DOMAIN frames_analysis :
                      frames_analysis[i].url = gambling_image_url

\* C25 witness: a result "Si" whose gambling_image_url is the URL of the last
\* of three frames, found by the deep scan after an ad-derived frame.
C25_Witness ==
    /\ pc = "done"
    /\ gambling_result = "Si"
    /\ Len(frames_analysis) = 3
    /\ gambling_image_url = frames_analysis[3].url
    /\ gambling_image_url # frames_analysis[1].url
    /\ Len(AdCalls) >= 1
    /\ Len(DeepCalls) >= 1

\* ------------------------------------------------------------ C26
\* C26 (as claimed): when the filter has returned, every region found with a
\* confidence of medium or high has its key in the output: some region of
\* filtered_ads has the same key, also when a low-confidence region with that
\* key came earlier in ads.
C26_QualifyingKeyKept ==
    pc = "filtered" =>
        \A i \in DOMAIN ads :
            ads[i].confidence \in {"high", "medium"} =>
                \E j \in DOMAIN filtered_ads :
                    ClaimedKey(filtered_ads[j]) = ClaimedKey(ads[i])

====
